---- MODULE Spec2Model ----
(***************************************************************************)
(* A model of pulp/models.py: the repository membership tracker            *)
(* (Repository.add_units / remove_units, ContentUnit.add_repos /           *)
(* remove_repos, the pre_save / post_delete handlers of                    *)
(* RepositoryContentUnit), the content identity engine                     *)
(* (ContentUnit.save, hash_key, cast) and the attribute store              *)
(* (GenericKeyValueMutableMapping over GenericKeyValueStore rows).         *)
(*                                                                         *)
(* The database is the committed state (rcu, repoDb, unitDb, kv).  Callers *)
(* are                                                                     *)
(* the processes of Procs; each runs one call at a time and the steps of   *)
(* two calls interleave at the points where the code talks to the          *)
(* database.  A statement inside transaction.atomic() becomes visible to   *)
(* the other caller only at commit; an UPDATE of a repository row holds    *)
(* that row's lock until the transaction ends.                             *)
(***************************************************************************)
EXTENDS Integers, Sequences, FiniteSets, TLC

\* ---------------------------------------------------------------- bounds
MaxClock == 3       \* timezone.now() is read at most this many times
MaxBulk == 2        \* most units (repositories) passed to one bulk call

Procs == {"p1", "p2"}
Repos == {"r1", "r2"}
UnitIds == {"u1", "u2"}

NoProc == "none"
NoVal == [t |-> "none", n |-> 0, s |-> ""]
NoUnit ==
    [content_type |-> "", key_digest |-> "", cls |-> "", name |-> NoVal, version |-> NoVal]

VARIABLES
    rcu,        \* committed RepositoryContentUnit rows
    repoDb,     \* committed Repository rows: last_unit_added, last_unit_removed (0 is NULL)
    rowLock,    \* the transaction holding each repository row's lock
    clock,      \* the last value timezone.now() returned
    unitDb,     \* committed ContentUnit rows (with their variant row), by pk
    pc,         \* where each caller is in its call
    call,       \* the locals of each caller's call
    inst,       \* the in-memory ContentUnit instance each caller holds
    res,        \* what each caller's last cast() returned
    kv,         \* committed GenericKeyValueStore rows (Notes, Config, Scratchpad)
    kvc         \* the locals of each caller's mapping call

vars == <<rcu, repoDb, rowLock, clock, unitDb, pc, call, inst, res, kv, kvc>>
memVars == <<rcu, repoDb, rowLock, clock>>
unitVars == <<unitDb, inst, res>>
attrVars == <<kv, kvc>>

\* ------------------------------------------------- the membership store
Row(i, r, u, c, m) ==
    [id |-> i, repository |-> r, content_unit |-> u, created |-> c, updated |-> m]

Pair(r, u) == <<r, u>>

\* RepositoryContentUnit.objects.get(repository=r, content_unit=u): the rows found
get_miss(rows, r, u) == {}
get(rows, r, u) ==
    {row \in rows : row.repository = r /\ row.content_unit = u}

\* Meta.unique_together = [('repository', 'content_unit')]: the INSERT is refused
unique_together_off(rows, r, u) == FALSE
unique_together(rows, r, u) ==
    \E row \in rows : row.repository = r /\ row.content_unit = u

\* content_unit = ForeignKey('ContentUnit'): the unit row must be there at commit
ForeignKeyOk(u) == unitDb[u] # NoUnit

\* RepositoryContentUnit.objects.filter(repository__in=rs, content_unit__in=us)
filter_loose(rows, rs, us) == {row \in rows : row.repository \in rs}
filter(rows, rs, us) ==
    {row \in rows : row.repository \in rs /\ row.content_unit \in us}

\* units_changed(repository, action) with now = timezone.now(): the repository
\* row after repository.save(update_fields=update.keys())
units_changed(db, repository, action, now) ==
    IF action = "save"
    THEN [db EXCEPT ![repository].last_unit_added = now]
    ELSE IF action = "delete"
         THEN [db EXCEPT ![repository].last_unit_removed = now]
         ELSE db

\* post_delete is sent for every collected instance, in pk order, each handler
\* reading timezone.now() anew
RECURSIVE post_delete(_, _, _)
post_delete(db, rows, clk) ==
    IF rows = {} THEN db
    ELSE LET row == CHOOSE x \in rows : \A y \in rows : x.id <= y.id
         IN post_delete(units_changed(db, row.repository, "delete", clk + 1),
                        rows \ {row}, clk + 1)

\* ----------------------------------------------------------- call locals
\* last: how the call's latest get_or_create ended: "found" by the first get,
\* "created", or "refused" (IntegrityError, then found by the second get); for a
\* remove, whether delete() had collected rows ("deleted") or none ("nothing")
EmptyCall ==
    [op |-> "none", pairs |-> <<>>, idx |-> 0, created |-> {}, stamp |-> 0,
     want |-> {}, collected |-> {}, status |-> "none", last |-> "none"]

\* the call returns (or raises): its locals are gone
Returned(op, status, last) == [EmptyCall EXCEPT !.op = op, !.status = status, !.last = last]

\* the argument lists of a bulk call: up to n different members of S, in any order
SeqsUpTo(S, n) ==
    {q \in UNION {[1..k -> S] : k \in 1..n} : \A i, j \in 1..Len(q) : i # j => q[i] # q[j]}
SetsUpTo(S, n) == {T \in SUBSET S : T # {} /\ Cardinality(T) <= n}

CurPair(p) == call[p].pairs[call[p].idx]

\* the for loop of add_units / add_repos: on to the next pair, or return
Advance(p, c, how) ==
    IF c.idx < Len(c.pairs)
    THEN /\ pc' = [pc EXCEPT ![p] = "get"]
         /\ call' = [call EXCEPT ![p] = [c EXCEPT !.idx = c.idx + 1, !.stamp = 0,
                                                  !.last = how]]
    ELSE /\ pc' = [pc EXCEPT ![p] = "done"]
         /\ call' = [call EXCEPT ![p] = Returned("add", "ok", how)]

\* the locals of a call that loops over the pairs ps
AddCall(ps) ==
    [EmptyCall EXCEPT !.op = "add", !.pairs = ps, !.idx = 1, !.status = "running"]

\* Repository.add_units(self, *units): for unit in units
add_units(p, r, us) ==
    /\ pc[p] = "done"
    /\ pc' = [pc EXCEPT ![p] = "get"]
    /\ call' = [call EXCEPT ![p] = AddCall([i \in 1..Len(us) |-> Pair(r, us[i])])]
    /\ UNCHANGED <<memVars, unitVars, attrVars>>

\* ContentUnit.add_repos(self, *repos): for repo in repos
add_repos(p, u, rs) ==
    /\ pc[p] = "done"
    /\ pc' = [pc EXCEPT ![p] = "get"]
    /\ call' = [call EXCEPT ![p] = AddCall([i \in 1..Len(rs) |-> Pair(rs[i], u)])]
    /\ UNCHANGED <<memVars, unitVars, attrVars>>

\* get_or_create: self.get(**lookup)
AddGet(p) ==
    /\ pc[p] = "get"
    /\ LET pr == CurPair(p) IN
       IF get(rcu, pr[1], pr[2]) # {}
       THEN Advance(p, call[p], "found")
       ELSE /\ pc' = [pc EXCEPT ![p] = "pre_save"]
            /\ UNCHANGED call
    /\ UNCHANGED <<memVars, unitVars, attrVars>>

\* get_or_create: create() inside transaction.atomic(); save() sends pre_save
\* first: units_saved -> units_changed(instance.repository, 'save') sets the
\* attribute on the caller's repository and issues the UPDATE of its row
units_saved(p) ==
    /\ pc[p] = "pre_save"
    /\ clock < MaxClock
    /\ LET pr == CurPair(p) IN
       /\ rowLock[pr[1]] = NoProc
       /\ rowLock' = [rowLock EXCEPT ![pr[1]] = p]
       /\ clock' = clock + 1
       /\ call' = [call EXCEPT ![p].stamp = clock + 1]
    /\ pc' = [pc EXCEPT ![p] = "insert"]
    /\ UNCHANGED <<rcu, repoDb, unitVars, attrVars>>

\* get_or_create: the INSERT and the end of the atomic block: commit, or
\* IntegrityError and rollback of the block (the repository UPDATE with it)
AddInsert(p) ==
    /\ pc[p] = "insert"
    /\ LET pr == CurPair(p) IN
       /\ rowLock' = [rowLock EXCEPT ![pr[1]] = NoProc]
       /\ IF unique_together(rcu, pr[1], pr[2]) \/ ~ForeignKeyOk(pr[2])
          THEN /\ pc' = [pc EXCEPT ![p] = "reget"]
               /\ UNCHANGED <<rcu, repoDb, call>>
          ELSE /\ rcu' = rcu \cup {Row(call[p].stamp, pr[1], pr[2], clock, clock)}
               /\ repoDb' = units_changed(repoDb, pr[1], "save", call[p].stamp)
               /\ Advance(p, [call[p] EXCEPT !.created = @ \cup {pr}], "created")
    /\ UNCHANGED <<clock, unitVars, attrVars>>

\* get_or_create: except IntegrityError: self.get(**lookup), else re-raise
AddReGet(p) ==
    /\ pc[p] = "reget"
    /\ LET pr == CurPair(p) IN
       IF get(rcu, pr[1], pr[2]) # {}
       THEN Advance(p, call[p], "refused")
       ELSE /\ pc' = [pc EXCEPT ![p] = "done"]
            /\ call' = [call EXCEPT ![p] = Returned("add", "IntegrityError", "none")]
    /\ UNCHANGED <<memVars, unitVars, attrVars>>

\* the locals of a remove: the queryset's delete() first collects the rows
RemoveCall(rs, us) ==
    [EmptyCall EXCEPT !.op = "remove", !.want = rs \X us,
                      !.collected = filter(rcu, rs, us), !.status = "running"]

\* Repository.remove_units(self, *units): filter(repository=self, content_unit__in=units)
remove_units(p, r, us) ==
    /\ pc[p] = "done"
    /\ pc' = [pc EXCEPT ![p] = "delete"]
    /\ call' = [call EXCEPT ![p] = RemoveCall({r}, us)]
    /\ UNCHANGED <<memVars, unitVars, attrVars>>

\* ContentUnit.remove_repos(self, *repos): filter(repository__in=repos, content_unit=self)
remove_repos(p, u, rs) ==
    /\ pc[p] = "done"
    /\ pc' = [pc EXCEPT ![p] = "delete"]
    /\ call' = [call EXCEPT ![p] = RemoveCall(rs, {u})]
    /\ UNCHANGED <<memVars, unitVars, attrVars>>

\* delete(): in one transaction, DELETE the collected pks, then post_delete for
\* each collected instance: units_deleted -> units_changed(repository, 'delete')
units_deleted(p) ==
    /\ pc[p] = "delete"
    /\ LET rows == call[p].collected
           n == Cardinality(rows) IN
       /\ clock + n <= MaxClock
       /\ \A row \in rows : rowLock[row.repository] = NoProc
       /\ rcu' = {row \in rcu : \A d \in rows : d.id # row.id}
       /\ repoDb' = post_delete(repoDb, rows, clock)
       /\ clock' = clock + n
    /\ pc' = [pc EXCEPT ![p] = "done"]
    /\ call' = [call EXCEPT ![p] =
                  Returned("remove", "ok",
                           IF call[p].collected = {} THEN "nothing" ELSE "deleted")]
    /\ UNCHANGED <<rowLock, unitVars, attrVars>>

\* RepositoryContentUnit.save() on a row that exists: pre_save is sent all the
\* same, then the UPDATE refreshes updated (auto_now)
RcuSave(p, row) ==
    /\ pc[p] = "done"
    /\ row \in rcu
    /\ clock < MaxClock
    /\ rowLock[row.repository] = NoProc
    /\ clock' = clock + 1
    /\ repoDb' = units_changed(repoDb, row.repository, "save", clock + 1)
    /\ rcu' = (rcu \ {row}) \cup {[row EXCEPT !.updated = clock + 1]}
    /\ call' = [call EXCEPT ![p] = Returned("resave", "ok", "none")]
    /\ UNCHANGED <<pc, rowLock, unitVars, attrVars>>

\* ------------------------------------------------------ content identity
\* ContentUnit._meta.model_name, and the model names of the concrete variants
BaseName == "contentunit"
Variants == {"rpm", "deb"}
Classes == {BaseName} \cup Variants

\* attributes of a ContentUnit that are no variant accessor (the notes relation)
OtherAttrs == {"notes"}

\* the values content_type is given by callers
ContentTypes == {BaseName, "deb", "gone", "notes"}

\* key-field values: a str or an int
StrV(x) == [t |-> "str", n |-> 0, s |-> x]
IntV(i) == [t |-> "int", n |-> i, s |-> ""]
NameValues == {StrV("a"), StrV("1"), IntV(1)}
VersionValues == {StrV("1"), IntV(1)}

Digits == <<"0", "1", "2", "3", "4", "5", "6", "7", "8", "9">>

\* str(i) of a natural number
RECURSIVE IntStr(_)
IntStr(i) == IF i < 10 THEN Digits[i + 1] ELSE IntStr(i \div 10) \o Digits[(i % 10) + 1]

\* '{}'.format(value)
Str(v) == IF v.t = "int" THEN IntStr(v.n) ELSE IF v.t = "str" THEN v.s ELSE "None"

\* KEY_FIELDS: ['pk'] on ContentUnit, overridden by the variants
KEY_FIELDS(cls) == IF cls \in Variants THEN <<"name", "version">> ELSE <<"pk">>

NoInst ==
    [kind |-> "none", pk |-> "", cls |-> "", content_type |-> "", key_digest |-> "",
     name |-> NoVal, version |-> NoVal]
Unit(pk, cls, ct, kd, nm, ver) ==
    [kind |-> "unit", pk |-> pk, cls |-> cls, content_type |-> ct, key_digest |-> kd,
     name |-> nm, version |-> ver]
\* what getattr gives for the notes relation: a manager, no ContentUnit
Manager == [NoInst EXCEPT !.kind = "manager"]
AttributeError == [NoInst EXCEPT !.kind = "AttributeError"]

\* cls._get_content_type()
_get_content_type(o) == o.cls

\* getattr(self, name): the variant row sharing the pk (or the accessor's
\* RelatedObjectDoesNotExist, an AttributeError), another attribute, or AttributeError
getattr(o, attr) ==
    IF attr \in Variants
    THEN IF unitDb[o.pk] # NoUnit /\ unitDb[o.pk].cls = attr
         THEN Unit(o.pk, attr, unitDb[o.pk].content_type, unitDb[o.pk].key_digest,
                   unitDb[o.pk].name, unitDb[o.pk].version)
         ELSE AttributeError
    ELSE IF attr \in OtherAttrs THEN Manager ELSE AttributeError

\* ContentUnit.cast
cast(o) ==
    IF _get_content_type(o) = o.content_type
    THEN o
    ELSE LET a == getattr(o, o.content_type)
         IN IF a = AttributeError THEN o ELSE a

\* key_dict: the (name, str(value)) items of key_tuple._asdict(), in KEY_FIELDS order
key_dict(obj) ==
    LET fs == KEY_FIELDS(obj.cls)
    IN [i \in 1..Len(fs) |->
            <<fs[i], IF fs[i] = "pk" THEN obj.pk ELSE Str(obj[fs[i]])>>]

RECURSIVE Concat(_)
Concat(items) ==
    IF items = <<>> THEN ""
    ELSE (items[1][1] \o items[1][2]) \o Concat(Tail(items))

\* sha256().hexdigest() of the bytes fed to it: one digest per byte string
sha256(bytes) == "sha256:" \o bytes

\* ContentUnit.hash_key: update() with '{}{}'.format(key, value) per item
hash_key(obj) == sha256(Concat(key_dict(obj)))

\* key_digest = CharField(unique=True): the write is refused
key_digest_unique_off(db, pk, kd) == FALSE
key_digest_unique(db, pk, kd) ==
    \E o \in UnitIds : o # pk /\ db[o] # NoUnit /\ db[o].key_digest = kd

Persisted == {u \in UnitIds : unitDb[u] # NoUnit}

UnitCall(op, status) == Returned(op, status, "none")

\* cls(name=..., version=...): a new instance, its pk a fresh uuid4
NewUnit(p, pk, cls, nm, ver) ==
    /\ pc[p] = "done"
    /\ pk \notin Persisted
    /\ \A q \in Procs \ {p} : inst[q].pk # pk
    /\ inst' = [inst EXCEPT ![p] =
                  IF cls \in Variants THEN Unit(pk, cls, "", "", nm, ver)
                                      ELSE Unit(pk, cls, "", "", NoVal, NoVal)]
    /\ res' = [res EXCEPT ![p] = NoInst]
    /\ call' = [call EXCEPT ![p] = UnitCall("new", "ok")]
    /\ UNCHANGED <<memVars, attrVars, unitDb, pc>>

\* ContentUnit.objects.get(pk=pk): the base instance of a stored unit
LoadUnit(p, pk) ==
    /\ pc[p] = "done"
    /\ pk \in Persisted
    /\ inst' = [inst EXCEPT ![p] =
                  Unit(pk, BaseName, unitDb[pk].content_type, unitDb[pk].key_digest,
                       NoVal, NoVal)]
    /\ res' = [res EXCEPT ![p] = NoInst]
    /\ call' = [call EXCEPT ![p] = UnitCall("load", "ok")]
    /\ UNCHANGED <<memVars, attrVars, unitDb, pc>>

\* unit.content_type = ct, by the caller
SetContentType(p, ct) ==
    /\ pc[p] = "done"
    /\ inst[p].kind = "unit"
    /\ inst[p].content_type # ct
    /\ inst' = [inst EXCEPT ![p].content_type = ct]
    /\ res' = [res EXCEPT ![p] = NoInst]
    /\ call' = [call EXCEPT ![p] = UnitCall("set", "ok")]
    /\ UNCHANGED <<memVars, attrVars, unitDb, pc>>

\* unit.cast()
Cast(p) ==
    /\ pc[p] = "done"
    /\ inst[p].kind = "unit"
    /\ res' = [res EXCEPT ![p] = cast(inst[p])]
    /\ call' = [call EXCEPT ![p] = UnitCall("cast", "ok")]
    /\ UNCHANGED <<memVars, attrVars, unitDb, inst, pc>>

\* ContentUnit.save up to the call of super().save(): the content_type check
\* and self.key_digest = self.hash_key()
SaveBegin(p) ==
    /\ pc[p] = "done"
    /\ inst[p].kind = "unit"
    /\ LET o == inst[p]
           typed == IF o.content_type = ""
                    THEN [o EXCEPT !.content_type = _get_content_type(o)]
                    ELSE o
           obj == cast(typed)
       IN IF o.content_type = "" /\ typed.content_type = BaseName
          THEN /\ inst' = [inst EXCEPT ![p] = typed]
               /\ call' = [call EXCEPT ![p] = UnitCall("save", "Exception")]
               /\ UNCHANGED pc
          ELSE IF obj.kind # "unit"
          THEN /\ inst' = [inst EXCEPT ![p] = typed]
               /\ call' = [call EXCEPT ![p] = UnitCall("save", "AttributeError")]
               /\ UNCHANGED pc
          ELSE /\ inst' = [inst EXCEPT ![p] = [typed EXCEPT !.key_digest = hash_key(obj)]]
               /\ call' = [call EXCEPT ![p] = UnitCall("save", "running")]
               /\ pc' = [pc EXCEPT ![p] = "write"]
    /\ res' = [res EXCEPT ![p] = NoInst]
    /\ UNCHANGED <<memVars, attrVars, unitDb>>

\* super(ContentUnit, self).save(): UPDATE the row of this pk, INSERT when there
\* is none; the unique index on key_digest refuses a duplicate (IntegrityError)
SaveWrite(p) ==
    /\ pc[p] = "write"
    /\ LET o == inst[p] IN
       IF key_digest_unique(unitDb, o.pk, o.key_digest)
       THEN /\ call' = [call EXCEPT ![p].status = "IntegrityError"]
            /\ UNCHANGED unitDb
       ELSE /\ call' = [call EXCEPT ![p].status = "ok"]
            /\ unitDb' = [unitDb EXCEPT ![o.pk] =
                 IF unitDb[o.pk] = NoUnit
                 THEN [content_type |-> o.content_type, key_digest |-> o.key_digest,
                       cls |-> o.cls, name |-> o.name, version |-> o.version]
                 ELSE IF o.cls = BaseName
                 THEN [@ EXCEPT !.content_type = o.content_type,
                                !.key_digest = o.key_digest]
                 ELSE [@ EXCEPT !.content_type = o.content_type,
                                !.key_digest = o.key_digest,
                                !.name = o.name, !.version = o.version]]
    /\ pc' = [pc EXCEPT ![p] = "done"]
    /\ UNCHANGED <<memVars, attrVars, inst, res>>

\* unit = unit.cast(): go on with the variant instance
UseCast(p) ==
    /\ pc[p] = "done"
    /\ res[p].kind = "unit"
    /\ res[p] # inst[p]
    /\ inst' = [inst EXCEPT ![p] = res[p]]
    /\ res' = [res EXCEPT ![p] = NoInst]
    /\ call' = [call EXCEPT ![p] = UnitCall("use", "ok")]
    /\ UNCHANGED <<memVars, attrVars, unitDb, pc>>

\* ------------------------------------------------------- attribute store
\* the relations of the models to a store, as (role, owner): Repository.notes
\* of r1 and ContentUnit.notes of u1, both rows of the Notes table
Relations == {<<"notes", "r1">>, <<"notes", "u1">>}
Keys == {"k1", "k2"}

\* the keys callers use on each mapping
KeysOf(rel) == IF rel = <<"notes", "r1">> THEN Keys ELSE {"k1"}

\* the values callers assign: a str or an int
Values == {StrV("a"), IntV(1)}

\* the uuid primary keys: a pk is (role, owner, key, id), its id telling it apart
\* from the other pks made for the same key; one row and one instance in
\* memory per caller can hold such a pk
Uuids == 1..(Cardinality(Procs) + 1)

KvRow(i, rel, k, text) ==
    [id |-> i, role |-> rel[1], owner |-> rel[2], key |-> k, value |-> text]

NoArgs ==
    [rel |-> <<"", "">>, key |-> "", value |-> NoVal, item |-> 0, found |-> "none",
     result |-> ""]

\* self.manager.get(key=key) of the owner's related manager: the rows found
manager_get_miss(rows, rel, k) == {}
manager_get(rows, rel, k) ==
    {row \in rows : row.role = rel[1] /\ row.owner = rel[2] /\ row.key = k}

\* Meta.unique_together = ('key', 'content_type', 'object_id'), per store table:
\* the INSERT of a row is refused
kv_unique_together(rows, rel, k) ==
    \E row \in rows : row.role = rel[1] /\ row.owner = rel[2] /\ row.key = k

\* the pk of the row or of the instance in memory is (rel, k, i)
PkInUse(rel, k, i) ==
    \/ \E row \in kv : row = KvRow(i, rel, k, row.value)
    \/ \E q \in Procs : kvc[q].item = i /\ kvc[q].rel = rel /\ kvc[q].key = k

\* uuid.uuid4(): a pk that no row and no instance in memory has
uuid4(rel, k) ==
    CHOOSE i \in Uuids :
        ~PkInUse(rel, k, i) /\ \A j \in Uuids : ~PkInUse(rel, k, j) => i <= j

\* value = models.TextField(): what the column holds for an assigned value
TextField(v) == Str(v)

\* the mapping call returns (or raises): item is gone, the arguments stay known
KvReturn(p, op, status) ==
    /\ pc' = [pc EXCEPT ![p] = "done"]
    /\ call' = [call EXCEPT ![p] = Returned(op, status, "none")]

\* mapping[key]: self.manager.get(key=key).value, or DoesNotExist
__getitem__(p, rel, k) ==
    /\ pc[p] = "done"
    /\ k \in KeysOf(rel)
    /\ LET found == manager_get(kv, rel, k) IN
       IF found = {}
       THEN /\ kvc' = [kvc EXCEPT ![p] = [NoArgs EXCEPT !.rel = rel, !.key = k]]
            /\ KvReturn(p, "getitem", "DoesNotExist")
       ELSE /\ kvc' = [kvc EXCEPT ![p] =
                        [NoArgs EXCEPT !.rel = rel, !.key = k, !.found = "hit",
                                       !.result = (CHOOSE row \in found : TRUE).value]]
            /\ KvReturn(p, "getitem", "ok")
    /\ UNCHANGED <<memVars, unitVars, kv>>

\* mapping[key] = value: item = self.manager.get(key=key); item.value = value
\* (or DoesNotExist is caught)
__setitem__(p, rel, k, v) ==
    /\ pc[p] = "done"
    /\ k \in KeysOf(rel)
    /\ LET found == manager_get(kv, rel, k) IN
       IF found = {}
       THEN /\ kvc' = [kvc EXCEPT ![p] =
                        [NoArgs EXCEPT !.rel = rel, !.key = k, !.value = v,
                                       !.found = "miss"]]
            /\ pc' = [pc EXCEPT ![p] = "kv_create"]
       ELSE /\ kvc' = [kvc EXCEPT ![p] =
                        [NoArgs EXCEPT !.rel = rel, !.key = k, !.value = v,
                                       !.found = "hit",
                                       !.item = (CHOOSE row \in found : TRUE).id]]
            /\ pc' = [pc EXCEPT ![p] = "kv_save"]
    /\ call' = [call EXCEPT ![p] = [EmptyCall EXCEPT !.op = "setitem", !.status = "running"]]
    /\ UNCHANGED <<memVars, unitVars, kv>>

\* item.save(): UPDATE the row of item's pk; INSERT it when no row has the pk
KvSave(p) ==
    /\ pc[p] = "kv_save"
    /\ LET a == kvc[p]
           new == KvRow(a.item, a.rel, a.key, TextField(a.value))
           old == {row \in kv : row = KvRow(a.item, a.rel, a.key, row.value)} IN
       IF old # {}
       THEN /\ kv' = (kv \ old) \cup {new}
            /\ KvReturn(p, "setitem", "ok")
       ELSE IF kv_unique_together(kv, a.rel, a.key)
       THEN /\ UNCHANGED kv
            /\ KvReturn(p, "setitem", "IntegrityError")
       ELSE /\ kv' = kv \cup {new}
            /\ KvReturn(p, "setitem", "ok")
    /\ kvc' = [kvc EXCEPT ![p].item = 0]
    /\ UNCHANGED <<memVars, unitVars>>

\* except DoesNotExist: item = self.manager.create(key=key, value=value)
KvCreate(p) ==
    /\ pc[p] = "kv_create"
    /\ LET a == kvc[p]
           new == KvRow(uuid4(a.rel, a.key), a.rel, a.key, TextField(a.value)) IN
       IF kv_unique_together(kv, a.rel, a.key)
       THEN /\ UNCHANGED kv
            /\ KvReturn(p, "setitem", "IntegrityError")
       ELSE /\ kv' = kv \cup {new}
            /\ KvReturn(p, "setitem", "ok")
    /\ UNCHANGED <<memVars, unitVars, kvc>>

\* del mapping[key]: self.manager.filter(key=key).delete(), one DELETE statement
__delitem__(p, rel, k) ==
    /\ pc[p] = "done"
    /\ k \in KeysOf(rel)
    /\ LET found == manager_get(kv, rel, k) IN
       /\ kv' = kv \ found
       /\ kvc' = [kvc EXCEPT ![p] = NoArgs]
    /\ KvReturn(p, "delitem", "ok")
    /\ UNCHANGED <<memVars, unitVars>>

\* ------------------------------------------------------- specifications
StoredRpm(pk, nm, ver) ==
    [content_type |-> "rpm", key_digest |-> hash_key(Unit(pk, "rpm", "rpm", "", nm, ver)),
     cls |-> "rpm", name |-> nm, version |-> ver]

InitCallers ==
    /\ pc = [p \in Procs |-> "done"]
    /\ call = [p \in Procs |-> EmptyCall]
    /\ inst = [p \in Procs |-> NoInst]
    /\ res = [p \in Procs |-> NoInst]

InitMapping ==
    /\ kv = {}
    /\ kvc = [p \in Procs |-> NoArgs]

InitStore ==
    /\ rcu = {}
    /\ repoDb = [r \in Repos |-> [last_unit_added |-> 0, last_unit_removed |-> 0]]
    /\ rowLock = [r \in Repos |-> NoProc]
    /\ clock = 0

\* The membership tracker over a catalog holding the unit u1; u2 is a unit that
\* was never saved.
Init ==
    /\ InitStore
    /\ InitCallers
    /\ InitMapping
    /\ unitDb = [u \in UnitIds |->
                   IF u = "u1" THEN StoredRpm(u, StrV("a"), IntV(1)) ELSE NoUnit]

Next ==
    \E p \in Procs :
        \/ \E r \in Repos, us \in SeqsUpTo(UnitIds, MaxBulk) : add_units(p, r, us)
        \/ \E u \in UnitIds, rs \in SeqsUpTo(Repos, MaxBulk) : add_repos(p, u, rs)
        \/ AddGet(p)
        \/ units_saved(p)
        \/ AddInsert(p)
        \/ AddReGet(p)
        \/ \E r \in Repos, us \in SetsUpTo(UnitIds, MaxBulk) : remove_units(p, r, us)
        \/ \E u \in UnitIds, rs \in SetsUpTo(Repos, MaxBulk) : remove_repos(p, u, rs)
        \/ units_deleted(p)
        \/ \E row \in rcu : RcuSave(p, row)

Spec == Init /\ [][Next]_vars

\* The identity engine over an empty catalog.
InitUnits ==
    /\ InitStore
    /\ InitCallers
    /\ InitMapping
    /\ unitDb = [u \in UnitIds |-> NoUnit]

NextUnits ==
    \E p \in Procs :
        \/ \E pk \in UnitIds, cls \in Classes, nm \in NameValues, ver \in VersionValues :
              NewUnit(p, pk, cls, nm, ver)
        \/ \E pk \in UnitIds : LoadUnit(p, pk)
        \/ Cast(p)
        \/ UseCast(p)
        \/ SaveBegin(p)
        \/ SaveWrite(p)

\* Two callers creating, loading, casting and saving units.
SpecUnits == InitUnits /\ [][NextUnits]_vars

\* One caller that also assigns content_type before it casts or saves.
NextTypes ==
    \E p \in {"p1"} :
        \/ \E pk \in UnitIds, cls \in Classes, nm \in NameValues, ver \in VersionValues :
              NewUnit(p, pk, cls, nm, ver)
        \/ \E pk \in UnitIds : LoadUnit(p, pk)
        \/ \E ct \in ContentTypes : SetContentType(p, ct)
        \/ Cast(p)
        \/ UseCast(p)
        \/ SaveBegin(p)
        \/ SaveWrite(p)

SpecTypes == InitUnits /\ [][NextTypes]_vars

\* The attribute stores, empty, of a repository and a unit.
InitAttrs ==
    /\ InitStore
    /\ InitCallers
    /\ InitMapping
    /\ unitDb = [u \in UnitIds |-> NoUnit]

NextAttrs ==
    \E p \in Procs :
        \/ \E rel \in Relations, k \in Keys : __getitem__(p, rel, k)
        \/ \E rel \in Relations, k \in Keys, v \in Values : __setitem__(p, rel, k, v)
        \/ KvSave(p)
        \/ KvCreate(p)
        \/ \E rel \in Relations, k \in Keys : __delitem__(p, rel, k)

\* Two callers reading, assigning and deleting keys of the mappings.
SpecAttrs == InitAttrs /\ [][NextAttrs]_vars

\* ------------------------------------------------------------ properties
\* the caller p takes this step
Steps(p) == pc'[p] # pc[p] \/ call'[p] # call[p]

\* p's get_or_create of its current pair returns in this step
GetOrCreateReturns(p) ==
    /\ pc[p] \in {"get", "insert", "reget"}
    /\ \/ pc'[p] = "done" /\ call'[p].status = "ok"
       \/ pc'[p] = "get" /\ call'[p].idx = call[p].idx + 1

RowIds(rows) == {row.id : row \in rows}

\* the membership rows of the pair pr among rows
Members(rows, pr) ==
    {row \in rows : row.repository = pr[1] /\ row.content_unit = pr[2]}

C2_SecondAddNoOp ==
    [][\A p \in Procs :
         (pc[p] = "get" /\ Steps(p) /\ Members(rcu, CurPair(p)) # {}) =>
            /\ rcu' = rcu
            /\ repoDb' = repoDb
            /\ clock' = clock
            /\ pc'[p] # "pre_save"
            /\ Cardinality(Members(rcu', CurPair(p))) = 1]_vars

\* a caller's add has returned having found the row, whose insert stamped the
\* repository
C2_Witness ==
    \E p \in Procs :
        /\ pc[p] = "done" /\ call[p].op = "add" /\ call[p].last = "found"
        /\ \E row \in rcu : repoDb[row.repository].last_unit_added = row.id

\* C3 (as claimed): a membership call that fails has linked none of its units.
C3_AllOrNothing ==
    [][\A p \in Procs :
         (call[p].op = "add" /\ call[p].status = "running"
            /\ call'[p].status = "IntegrityError") =>
              /\ call[p].created = {}
              /\ \A pr \in call[p].created : Members(rcu', pr) = {}]_vars

\* C4 (as claimed): once the handler of a pair's add has written the timestamp,
\* the pair's membership row is written.
C4_RowBeforeTimestamp ==
    \A p \in Procs :
        (call[p].op = "add" /\ call[p].stamp # 0) =>
            Members(rcu, CurPair(p)) # {}

C6_AddedOnlyOnInsert ==
    [][\A r \in Repos :
         repoDb'[r].last_unit_added # repoDb[r].last_unit_added =>
            \E row \in rcu' : row.repository = r /\ row.id \notin RowIds(rcu)]_vars

\* the key mapping of an instance: field names and stringified values
KeyOf(o) == key_dict(cast(o))

\* p's save() has computed self.key_digest and reached the store
SaveReachedStore(p) ==
    /\ call[p].op = "save"
    /\ \/ pc[p] = "write"
       \/ pc[p] = "done" /\ call[p].status \in {"ok", "IntegrityError"}

WithDigest(kd) == {u \in Persisted : unitDb[u].key_digest = kd}

\* C7: instances with equal key mappings (same field names and stringified
\* values), of the same variant or not, get equal key_digest; no two stored
\* units share a key_digest; and when two callers have saved two such units,
\* however their saves interleaved, one record with that digest is in the
\* store and the save of at least one of them ended in IntegrityError.
C7_DigestUnique ==
    /\ \A u, v \in Persisted :
          u # v => unitDb[u].key_digest # unitDb[v].key_digest
    /\ \A p, q \in Procs :
          (p # q /\ SaveReachedStore(p) /\ SaveReachedStore(q)
             /\ KeyOf(inst[p]) = KeyOf(inst[q])) =>
                /\ inst[p].key_digest = inst[q].key_digest
                /\ (pc[p] = "done" /\ pc[q] = "done" /\ inst[p].pk # inst[q].pk) =>
                      /\ Cardinality(WithDigest(inst[p].key_digest)) = 1
                      /\ ~(call[p].status = "ok" /\ call[q].status = "ok")

\* two callers have saved units of different variants whose key values differ
\* as values but not as strings: one save went through, the other was refused
C7_Witness ==
    \E p, q \in Procs :
        /\ p # q
        /\ pc[p] = "done" /\ call[p].op = "save" /\ call[p].status = "ok"
        /\ pc[q] = "done" /\ call[q].op = "save" /\ call[q].status = "IntegrityError"
        /\ inst[p].cls \in Variants /\ inst[q].cls \in Variants
        /\ inst[p].cls # inst[q].cls
        /\ inst[p].name # inst[q].name
        /\ inst[p].pk # inst[q].pk
        /\ KeyOf(inst[p]) = KeyOf(inst[q])
        /\ inst[q].pk \notin Persisted

\* C8 (as claimed): no stored unit has the base name as its content_type.
C8_NoUntypedStored ==
    \A u \in Persisted : unitDb[u].content_type # BaseName

\* C9 (as claimed): the stored content_type of a unit never changes.
C9_ContentTypeFixed ==
    [][\A u \in UnitIds :
         unitDb[u] # NoUnit => unitDb'[u].content_type = unitDb[u].content_type]_vars

\* C10 (as claimed): cast() of a base instance whose content_type names no
\* variant returns a unit with the same pk, content_type and key_digest.
C10_CastUnknownReturnsBase ==
    \A p \in Procs :
        (call[p].op = "cast" /\ inst[p].cls = BaseName
           /\ inst[p].content_type \notin Variants) =>
              /\ res[p].kind = "unit"
              /\ res[p].pk = inst[p].pk
              /\ res[p].content_type = inst[p].content_type
              /\ res[p].key_digest = inst[p].key_digest

\* the entries of key k in the mapping rel among rows, and all the other entries
Entries(rows, rel, k) ==
    {row \in rows : <<row.role, row.owner>> = rel /\ row.key = k}
Others(rows, rel, k) == rows \ Entries(rows, rel, k)

\* C11: the store never holds two entries of one key of one owner's mapping.
\* A set that returns leaves exactly one entry of its key, holding the text of
\* its value, and when the key had an entry it is that same row (updated in
\* place); a set that raises leaves the store as it was; neither touches the
\* entries of any other key or owner.  A delete leaves no entry of its key and
\* all others.  A get changes nothing and returns the value of the key's
\* entry, or raises DoesNotExist when there is none.  So a get returns the text
\* of the latest set of its key that no delete followed.
C11_OneEntryPerKey ==
    /\ [](\A rel \in Relations, k \in Keys : Cardinality(Entries(kv, rel, k)) <= 1)
    /\ [][\A p \in Procs :
            /\ (pc[p] \in {"kv_save", "kv_create"} /\ Steps(p)) =>
                  LET a == kvc[p] IN
                  /\ Others(kv', a.rel, a.key) = Others(kv, a.rel, a.key)
                  /\ call'[p].status # "ok" => kv' = kv
                  /\ call'[p].status = "ok" =>
                        /\ \E row \in kv' :
                              /\ Entries(kv', a.rel, a.key) = {row}
                              /\ row.value = Str(a.value)
                        /\ \A old \in Entries(kv, a.rel, a.key) :
                              \A new \in Entries(kv', a.rel, a.key) : new.id = old.id
            /\ (pc[p] = "done" /\ Steps(p) /\ call'[p].op = "setitem") => kv' = kv
            /\ (pc[p] = "done" /\ Steps(p) /\ call'[p].op = "delitem") =>
                  \E rel \in Relations, k \in Keys :
                      /\ Entries(kv', rel, k) = {}
                      /\ kv' = Others(kv, rel, k)
            /\ (pc[p] = "done" /\ Steps(p) /\ call'[p].op = "getitem") =>
                  LET a == kvc'[p] IN
                  /\ kv' = kv
                  /\ IF Entries(kv, a.rel, a.key) = {}
                     THEN call'[p].status = "DoesNotExist"
                     ELSE /\ call'[p].status = "ok"
                          /\ \A row \in Entries(kv, a.rel, a.key) :
                                a.result = row.value]_vars

\* a set of the int 1 has updated the entry of a key in place and returned, and
\* the other caller's get of that key has returned the text "1", while the
\* owner's other key and the other owner's key have entries too
C11_Witness ==
    \E p, q \in Procs :
        /\ p # q
        /\ pc[p] = "done" /\ call[p].op = "setitem" /\ call[p].status = "ok"
        /\ kvc[p].found = "hit" /\ kvc[p].value = IntV(1)
        /\ pc[q] = "done" /\ call[q].op = "getitem" /\ call[q].status = "ok"
        /\ kvc[q].rel = kvc[p].rel /\ kvc[q].key = kvc[p].key
        /\ kvc[q].result = "1"
        /\ \E row \in kv : <<row.role, row.owner>> = kvc[p].rel /\ row.key # kvc[p].key
        /\ \E row \in kv : <<row.role, row.owner>> # kvc[p].rel

\* C12 (as claimed): when two callers' sets of one key have both missed the
\* key at their lookup and have both ended, both ended without error and the
\* key has exactly one entry, holding the text of one of the two values.
C12_ConcurrentSetBothSucceed ==
    \A p, q \in Procs :
        (/\ p # q
         /\ pc[p] = "done" /\ call[p].op = "setitem" /\ kvc[p].found = "miss"
         /\ pc[q] = "done" /\ call[q].op = "setitem" /\ kvc[q].found = "miss"
         /\ kvc[p].rel = kvc[q].rel /\ kvc[p].key = kvc[q].key) =>
            /\ call[p].status = "ok" /\ call[q].status = "ok"
            /\ \E row \in kv :
                  /\ Entries(kv, kvc[p].rel, kvc[p].key) = {row}
                  /\ row.value \in {Str(kvc[p].value), Str(kvc[q].value)}

====
